---------------------------- MODULE Spec2Model ----------------------------
(***************************************************************************)
(* Job description generator.                                              *)
(*                                                                         *)
(* The React component App of src/Frontend/src/main.tsx as a state         *)
(* machine: the component state (formData, loading, result, rawResult,     *)
(* error, success, copied, formErrors), the generation request and its     *)
(* response in flight, the clipboard promises and the "Copied!" timers.    *)
(* One action per event handler and per continuation of an await or of a   *)
(* promise.                                                                *)
(*                                                                         *)
(* Text that the code trims or splits is a sequence of one-character       *)
(* strings; messages shown to the user are plain strings.                  *)
(*                                                                         *)
(* The Term Emphasizer runs in the backend, whose source is not part of    *)
(* src/: it is modelled from section 4.4 of the specification, as a scan   *)
(* with its own variables and its own specification EmphSpec.              *)
(***************************************************************************)
EXTENDS Integers, Sequences, FiniteSets, TLC

VARIABLES
    formData,     \* useState<JobDescriptionForm>
    loading,      \* useState(false)
    result,       \* useState(""): HTML shown in the result area
    rawResult,    \* useState(""): plain text handed to the clipboard
    error,        \* useState("")
    success,      \* useState("")
    copied,       \* useState(false)
    formErrors,   \* useState<Record<string, string>>({})
    fetchState,   \* position of handleSubmit: "idle", "pending" (await fetch), "parsing" (await response.json())
    request,      \* the request body in flight: <<>> or <<payload>>
    response,     \* the response on the wire or being parsed: <<>> or <<response>>
    clipPending,  \* the texts of the navigator.clipboard.writeText calls not yet settled
    timers,       \* number of pending setTimeout(() => setCopied(false), 2000)
    edits,        \* number of change events handled so far
    rawText,        \* Term Emphasizer: raw_text, the generated text
    skillList,      \* Term Emphasizer: the skills of the request
    scanPos,        \* Term Emphasizer: the scan position in raw_text
    emphasizedHtml  \* Term Emphasizer: emphasized_html emitted so far, as tokens

vars == <<formData, loading, result, rawResult, error, success, copied, formErrors,
          fetchState, request, response, clipPending, timers, edits,
          rawText, skillList, scanPos, emphasizedHtml>>

pageVars == <<formData, loading, result, rawResult, error, success, copied, formErrors,
              fetchState, request, response, clipPending, timers, edits>>
emphVars == <<rawText, skillList, scanPos, emphasizedHtml>>

(***************************************************************************)
(* Bounds of the model.                                                    *)
(***************************************************************************)
\* change events (handleInputChange, handleSkillsChange) in one session
MaxEdits == 8
\* clipboard writes and "Copied!" timers outstanding at the same time
MaxCopies == 1
\* length of the generated text handed to the Term Emphasizer
MaxTextLen == 4

(***************************************************************************)
(* JavaScript values.                                                      *)
(***************************************************************************)
\* null of min_salary / max_salary; a number n is the one-element sequence <<n>>
Null == <<>>
\* the empty string "" of min_experience_years and of the text fields
EmptyString == <<>>
\* undefined, for a property a response body does not have
Undefined == "undefined"
\* undefined where the property would be text
UndefinedText == <<"undefined">>

Truthy(s) == s # "" /\ s # Undefined
TruthyText(t) == t # <<>> /\ t # UndefinedText

WhiteSpace == {" "}

\* String.prototype.trim
RECURSIVE TrimStart(_)
TrimStart(t) ==
    IF t # <<>> /\ Head(t) \in WhiteSpace THEN TrimStart(Tail(t)) ELSE t

RECURSIVE TrimEnd(_)
TrimEnd(t) ==
    IF t # <<>> /\ t[Len(t)] \in WhiteSpace THEN TrimEnd(SubSeq(t, 1, Len(t) - 1)) ELSE t

Trim(t) == TrimEnd(TrimStart(t))

\* String.prototype.split(","): the pieces between the commas, in order
RECURSIVE SplitComma(_, _)
SplitComma(t, piece) ==
    IF t = <<>> THEN <<piece>>
    ELSE IF Head(t) = "," THEN <<piece>> \o SplitComma(Tail(t), <<>>)
    ELSE SplitComma(Tail(t), Append(piece, Head(t)))

\* Array.prototype.map((skill) => skill.trim())
MapTrim(pieces) == [i \in 1..Len(pieces) |-> Trim(pieces[i])]

\* Array.prototype.filter((skill) => skill !== "")
RECURSIVE FilterNonEmpty(_)
FilterNonEmpty(pieces) ==
    IF pieces = <<>> THEN <<>>
    ELSE IF Head(pieces) # <<>> THEN <<Head(pieces)>> \o FilterNonEmpty(Tail(pieces))
    ELSE FilterNonEmpty(Tail(pieces))

DigitValue(c) ==
    CASE c = "0" -> 0 [] c = "1" -> 1 [] c = "2" -> 2 [] c = "3" -> 3 [] c = "4" -> 4
      [] c = "5" -> 5 [] c = "6" -> 6 [] c = "7" -> 7 [] c = "8" -> 8 [] c = "9" -> 9

RECURSIVE ParseDigits(_, _)
ParseDigits(t, acc) ==
    IF t = <<>> THEN acc ELSE ParseDigits(Tail(t), 10 * acc + DigitValue(Head(t)))

\* parseFloat on the value of an <input type="number">: an optional sign and digits
ParseFloat(t) ==
    IF Head(t) = "-" THEN 0 - ParseDigits(Tail(t), 0) ELSE ParseDigits(t, 0)

\* Number(x) for x a number (<<n>>) or the empty string
Number(x) == IF x = EmptyString THEN 0 ELSE x[1]

(***************************************************************************)
(* The form.                                                               *)
(***************************************************************************)
\* new Date(today + 30 days).toISOString().split("T")[0]
DefaultDeadline == "today+30"

\* an initial form whose style, like workplace, has to be selected first
InitialFormDataWithoutStyle ==
    [job_title |-> <<>>,
     company_name |-> <<>>,
     location |-> <<>>,
     workplace |-> "",
     skills |-> <<>>,
     min_experience_years |-> <<0>>,
     exp_level_category |-> "",
     min_salary |-> Null,
     max_salary |-> Null,
     deadline |-> "",
     notes |-> <<>>,
     qualification_details |-> <<>>,
     benefits_details |-> <<>>,
     style_preference |-> "",
     output_length_preference |-> "Standard"]

InitialFormData ==
    [job_title |-> <<>>,
     company_name |-> <<>>,
     location |-> <<>>,
     workplace |-> "",
     skills |-> <<>>,
     min_experience_years |-> <<0>>,
     exp_level_category |-> "",
     min_salary |-> Null,
     max_salary |-> Null,
     deadline |-> "",
     notes |-> <<>>,
     qualification_details |-> <<>>,
     benefits_details |-> <<>>,
     style_preference |-> "LinkedIn",
     output_length_preference |-> "Standard"]

EmptyErrors == [f \in {} |-> ""]

\* errors.<field> = <message>
SetError(errors, field, message) ==
    [f \in DOMAIN errors \cup {field} |-> IF f = field THEN message ELSE errors[f]]

\* delete newErrors[name]
DeleteError(errors, field) ==
    [f \in DOMAIN errors \ {field} |-> errors[f]]

\* a validateForm whose experience rule only asks for a value, of any sign
validateFormAnyExperience(fd) ==
    LET required == [job_title |-> "Job title is required",
                     company_name |-> "Company name is required",
                     location |-> "Location is required",
                     workplace |-> "Workplace type is required",
                     skills |-> "At least one skill is required (comma-separated)",
                     min_experience_years |->
                         "Valid minimum experience (0 or more) is required",
                     exp_level_category |-> "Experience level is required"]
        missing == {f \in {"job_title", "company_name", "location"} : Trim(fd[f]) = <<>>}
                   \cup {f \in {"workplace", "exp_level_category"} : fd[f] = ""}
                   \cup {f \in {"skills", "min_experience_years"} : Len(fd[f]) = 0}
    IN  [f \in missing |-> required[f]]

\* the errors object that validateForm builds from the form
validateForm(fd) ==
    LET e0 == EmptyErrors
        e1 == IF Trim(fd.job_title) = <<>>
              THEN SetError(e0, "job_title", "Job title is required") ELSE e0
        e2 == IF Trim(fd.company_name) = <<>>
              THEN SetError(e1, "company_name", "Company name is required") ELSE e1
        e3 == IF Trim(fd.location) = <<>>
              THEN SetError(e2, "location", "Location is required") ELSE e2
        e4 == IF fd.workplace = ""
              THEN SetError(e3, "workplace", "Workplace type is required") ELSE e3
        e5 == IF Len(fd.skills) = 0
              THEN SetError(e4, "skills", "At least one skill is required (comma-separated)")
              ELSE e4
        e6 == IF fd.min_experience_years = EmptyString \/ Number(fd.min_experience_years) < 0
              THEN SetError(e5, "min_experience_years",
                            "Valid minimum experience (0 or more) is required")
              ELSE e5
        e7 == IF fd.exp_level_category = ""
              THEN SetError(e6, "exp_level_category", "Experience level is required") ELSE e6
    IN  e7

\* the payload of handleSubmit
Payload(fd) ==
    [fd EXCEPT !.min_salary = IF fd.min_salary = Null THEN <<0>> ELSE <<Number(fd.min_salary)>>,
               !.max_salary = IF fd.max_salary = Null THEN <<0>> ELSE <<Number(fd.max_salary)>>,
               !.min_experience_years = <<Number(fd.min_experience_years)>>]

(***************************************************************************)
(* What the user can enter (the change events the model draws from).       *)
(***************************************************************************)
TextFields == {"job_title", "company_name", "location", "notes",
               "qualification_details", "benefits_details"}
NumberFields == {"min_experience_years", "min_salary", "max_salary"}
SelectFields == {"workplace", "exp_level_category", "style_preference",
                 "output_length_preference"}
\* the fields whose onChange is handleInputChange (skills has handleSkillsChange)
InputNames == TextFields \cup NumberFields \cup SelectFields \cup {"deadline"}

Dev == <<"D", "e", "v">>
Acme == <<"A">>
Lahore == <<"L">>

\* e.target.value of the change event of field name
InputValues(name) ==
    CASE name = "job_title" -> {<<" ">>, Dev}
      [] name = "company_name" -> {Acme}
      [] name = "location" -> {Lahore}
      [] name = "notes" -> {<<>>}
      [] name = "qualification_details" -> {<<>>}
      [] name = "benefits_details" -> {<<>>}
      [] name = "workplace" -> {"Remote"}
      [] name = "exp_level_category" -> {"Mid Level"}
      [] name = "style_preference" -> {"LinkedIn", "LLM Generated (Full & Beautiful)"}
      [] name = "output_length_preference" -> {"Standard"}
      [] name = "deadline" -> {"", "2030-01-31"}
      [] name = "min_experience_years" -> {<<>>, <<"0">>, <<"-", "1">>}
      [] name = "min_salary" -> {<<>>, <<"1", "2", "0", "0", "0", "0">>}
      [] name = "max_salary" -> {<<>>, <<"8", "0", "0", "0", "0">>}

\* e.target.value of the change event of the skills textarea
SkillsTexts ==
    {<<>>,
     <<"G", "o">>,
     <<" ", "G", "o", " ", ",", ",", " ">>,
     <<"G", "o", ",", "g", "o">>}

\* processedValue of handleInputChange
ProcessedValue(name, value) ==
    IF name \in NumberFields
    THEN IF name = "min_salary" \/ name = "max_salary"
         THEN IF value = <<>> THEN Null ELSE <<ParseFloat(value)>>
         ELSE IF value = <<>> THEN EmptyString ELSE <<ParseFloat(value)>>
    ELSE value

\* a skillsArray without the map((skill) => skill.trim()) step
SkillsArrayUntrimmed(value) == FilterNonEmpty(SplitComma(value, <<>>))

\* skillsArray of handleSkillsChange
SkillsArray(value) == FilterNonEmpty(MapTrim(SplitComma(value, <<>>)))

(***************************************************************************)
(* Messages.                                                               *)
(***************************************************************************)
SuccessMessage == "Job description generated successfully!"
ConnectMessage ==
    "Failed to connect to the server. Please ensure the backend is running and accessible at http://localhost:8000."
CopyFailMessage == "Failed to copy text to clipboard."

\* `An error occurred (Status: ${response.status}). Please check inputs.`
StatusMessage(status) ==
    CASE status = 200 -> "An error occurred (Status: 200). Please check inputs."
      [] status = 503 -> "An error occurred (Status: 503). Please check inputs."

(***************************************************************************)
(* The generation endpoint, as the page sees it: any status, any body.     *)
(***************************************************************************)
\* response.ok
Ok(status) == status >= 200 /\ status <= 299

HtmlDescription == <<"<", "b", ">", "G", "o", "<", "/", "b", ">">>
PlainDescription == <<"G", "o">>
BlankDescription == <<" ">>

BackendMessage == "The model is unavailable, try again later."
BackendDetail == "HfHubHTTPError: 401 Client Error (Request ID: 7f3)"

\* a response body: what response.json() yields (a rejection, null, or an object)
Body(kind, status, job_description, raw_description, message, detail) ==
    [kind |-> kind, status |-> status, job_description |-> job_description,
     raw_description |-> raw_description, message |-> message, detail |-> detail]

SuccessBody(job_description, raw_description) ==
    Body("object", "success", job_description, raw_description, Undefined, Undefined)

ErrorBody(message, detail) ==
    Body("object", "error", UndefinedText, UndefinedText, message, detail)

Responses ==
    {[status |-> 200, body |-> SuccessBody(HtmlDescription, PlainDescription)],
     [status |-> 200, body |-> SuccessBody(HtmlDescription, <<>>)],
     [status |-> 200, body |-> SuccessBody(BlankDescription, BlankDescription)],
     [status |-> 200, body |-> SuccessBody(<<>>, <<>>)],
     [status |-> 503, body |-> SuccessBody(HtmlDescription, PlainDescription)],
     [status |-> 200, body |-> ErrorBody(BackendMessage, Undefined)],
     [status |-> 503, body |-> ErrorBody(BackendMessage, BackendDetail)],
     [status |-> 503, body |-> ErrorBody(Undefined, BackendDetail)],
     [status |-> 503, body |-> ErrorBody(Undefined, Undefined)],
     [status |-> 200, body |-> Body("null", Undefined, UndefinedText, UndefinedText,
                                    Undefined, Undefined)],
     [status |-> 503, body |-> Body("unparsable", Undefined, UndefinedText, UndefinedText,
                                    Undefined, Undefined)]}

\* the text of the exception a rejected fetch / response.json() throws
FetchExceptions == {"TypeError: Failed to fetch"}
JsonExceptions == {"SyntaxError: Unexpected token < in JSON at position 0"}
NullExceptions == {"TypeError: Cannot read properties of null (reading 'status')"}
ClipboardExceptions == {"NotAllowedError: Write permission denied."}

(***************************************************************************)
(* The component after mount: useState initial values, then the useEffect  *)
(* that sets the default deadline.                                         *)
(***************************************************************************)
PageInit ==
    /\ formData = [InitialFormData EXCEPT !.deadline = DefaultDeadline]
    /\ loading = FALSE
    /\ result = <<>>
    /\ rawResult = <<>>
    /\ error = ""
    /\ success = ""
    /\ copied = FALSE
    /\ formErrors = EmptyErrors
    /\ fetchState = "idle"
    /\ request = <<>>
    /\ response = <<>>
    /\ clipPending = <<>>
    /\ timers = 0
    /\ edits = 0

\* no text is being emphasized
EmphIdle ==
    /\ rawText = <<>>
    /\ skillList = {}
    /\ scanPos = 1
    /\ emphasizedHtml = <<>>

Init == PageInit /\ EmphIdle

outcomeVars == <<loading, result, rawResult, error, success>>
fetchVars == <<fetchState, request, response>>
clipVars == <<clipPending, timers, copied>>

(***************************************************************************)
(* Change handlers.                                                        *)
(***************************************************************************)
\* an edit that clears every validation error
ClearAllErrors(errors, name) == EmptyErrors

\* the "Clear validation error for the field being edited" block
ClearError(errors, name) ==
    IF name \in DOMAIN errors THEN DeleteError(errors, name) ELSE errors

handleInputChange(name, value) ==
    /\ edits < MaxEdits
    /\ ProcessedValue(name, value) # formData[name]
    /\ formData' = [formData EXCEPT ![name] = ProcessedValue(name, value)]
    /\ formErrors' = ClearError(formErrors, name)
    /\ edits' = edits + 1
    /\ UNCHANGED <<outcomeVars, fetchVars, clipVars>>
    /\ UNCHANGED emphVars

handleSkillsChange(value) ==
    /\ edits < MaxEdits
    /\ SkillsArray(value) # formData.skills
    /\ formData' = [formData EXCEPT !.skills = SkillsArray(value)]
    /\ formErrors' = ClearError(formErrors, "skills")
    /\ edits' = edits + 1
    /\ UNCHANGED <<outcomeVars, fetchVars, clipVars>>
    /\ UNCHANGED emphVars

(***************************************************************************)
(* handleSubmit up to its first await.  The submit button is disabled      *)
(* while loading.                                                          *)
(***************************************************************************)
\* validateForm(): true if the errors object has no key
FormIsValid(fd) == DOMAIN validateForm(fd) = {}

\* a submission that validates but does not return on failure
handleSubmitWithoutReturn ==
    /\ ~loading
    /\ formErrors' = validateForm(formData)
    /\ loading' = TRUE
    /\ error' = ""
    /\ success' = ""
    /\ result' = <<>>
    /\ rawResult' = <<>>
    /\ request' = <<Payload(formData)>>
    /\ response' = <<>>
    /\ fetchState' = "pending"
    /\ UNCHANGED <<formData, clipVars, edits>>
    /\ UNCHANGED emphVars

handleSubmit ==
    /\ ~loading
    /\ formErrors' = validateForm(formData)
    /\ IF ~FormIsValid(formData)
       THEN UNCHANGED <<outcomeVars, fetchVars>>
       ELSE /\ loading' = TRUE
            /\ error' = ""
            /\ success' = ""
            /\ result' = <<>>
            /\ rawResult' = <<>>
            /\ request' = <<Payload(formData)>>
            /\ response' = <<>>
            /\ fetchState' = "pending"
    /\ UNCHANGED <<formData, clipVars, edits>>
    /\ UNCHANGED emphVars

(***************************************************************************)
(* The network.  The backend is outside the page: it may answer with any   *)
(* response, the connection may fail, or nothing may ever come back.       *)
(***************************************************************************)
BackendAnswers(resp) ==
    /\ fetchState = "pending"
    /\ response = <<>>
    /\ response' = <<resp>>
    /\ UNCHANGED <<formData, formErrors, outcomeVars, fetchState, request, clipVars, edits>>
    /\ UNCHANGED emphVars

(***************************************************************************)
(* handleSubmit after its awaits.                                          *)
(***************************************************************************)
\* a catch block that shows the exception it caught
CatchMessageShowsException(err) == err

\* the message the catch block shows for the exception err
CatchMessage(err) == ConnectMessage

\* the message the else branch shows for a response that is not a success
ErrorResponseMessage(status, data) ==
    IF Truthy(data.message) THEN data.message
    ELSE IF Truthy(data.detail) THEN data.detail
    ELSE StatusMessage(status)

\* a copy text that is always the displayed HTML
RawTextIsHtml(data) == data.job_description

\* data.raw_description || data.job_description
RawText(data) ==
    IF TruthyText(data.raw_description) THEN data.raw_description ELSE data.job_description

\* response.ok && data.status === "success"
IsSuccess(status, data) == Ok(status) /\ data.status = "success"

\* a catch block with no finally: the loading indicator is left on
CatchWithoutFinally(err) ==
    /\ error' = CatchMessage(err)
    /\ fetchState' = "idle"
    /\ request' = <<>>
    /\ response' = <<>>
    /\ UNCHANGED <<formData, formErrors, loading, result, rawResult, success, clipVars, edits>>
    /\ UNCHANGED emphVars

\* catch (err) { setError(...) } finally { setLoading(false) }
CatchAndFinally(err) ==
    /\ error' = CatchMessage(err)
    /\ loading' = FALSE
    /\ fetchState' = "idle"
    /\ request' = <<>>
    /\ response' = <<>>
    /\ UNCHANGED <<formData, formErrors, result, rawResult, success, clipVars, edits>>
    /\ UNCHANGED emphVars

\* await fetch(...) rejects: the server cannot be reached
FetchRejected(err) ==
    /\ fetchState = "pending"
    /\ response = <<>>
    /\ CatchAndFinally(err)

\* await fetch(...) resolves with the response; handleSubmit awaits response.json()
FetchResolved ==
    /\ fetchState = "pending"
    /\ response # <<>>
    /\ fetchState' = "parsing"
    /\ UNCHANGED <<formData, formErrors, outcomeVars, request, response, clipVars, edits>>
    /\ UNCHANGED emphVars

\* await response.json() rejects: the body is not JSON
JsonRejected(err) ==
    /\ fetchState = "parsing"
    /\ response[1].body.kind = "unparsable"
    /\ CatchAndFinally(err)

\* await response.json() resolves with null: reading data.status throws
JsonNull(err) ==
    /\ fetchState = "parsing"
    /\ response[1].body.kind = "null"
    /\ CatchAndFinally(err)

\* await response.json() resolves with an object: the if/else, then finally
JsonResolved ==
    /\ fetchState = "parsing"
    /\ response[1].body.kind = "object"
    /\ LET status == response[1].status
           data == response[1].body
       IN  IF IsSuccess(status, data)
           THEN /\ result' = data.job_description
                /\ rawResult' = RawText(data)
                /\ success' = SuccessMessage
                /\ error' = error
           ELSE /\ error' = ErrorResponseMessage(status, data)
                /\ UNCHANGED <<result, rawResult, success>>
    /\ loading' = FALSE
    /\ fetchState' = "idle"
    /\ request' = <<>>
    /\ response' = <<>>
    /\ UNCHANGED <<formData, formErrors, clipVars, edits>>
    /\ UNCHANGED emphVars

(***************************************************************************)
(* Copy to clipboard.  The copy button is rendered when result is truthy   *)
(* and loading is false, and is disabled when rawResult is falsy.          *)
(***************************************************************************)
handleCopyToClipboard ==
    /\ TruthyText(result)
    /\ ~loading
    /\ TruthyText(rawResult)
    /\ Len(clipPending) + timers < MaxCopies
    /\ clipPending' = Append(clipPending, rawResult)
    /\ UNCHANGED <<formData, formErrors, outcomeVars, fetchVars, timers, copied, edits>>
    /\ UNCHANGED emphVars

\* writeText(...).then: setCopied(true) and the 2 s timer
ClipboardResolved ==
    /\ clipPending # <<>>
    /\ clipPending' = Tail(clipPending)
    /\ copied' = TRUE
    /\ timers' = timers + 1
    /\ UNCHANGED <<formData, formErrors, outcomeVars, fetchVars, edits>>
    /\ UNCHANGED emphVars

\* writeText(...).catch
ClipboardRejected(err) ==
    /\ clipPending # <<>>
    /\ clipPending' = Tail(clipPending)
    /\ error' = CopyFailMessage
    /\ UNCHANGED <<formData, formErrors, loading, result, rawResult, success, fetchVars,
                   timers, copied, edits>>
    /\ UNCHANGED emphVars

\* setTimeout(() => setCopied(false), 2000)
TimerFired ==
    /\ timers > 0
    /\ timers' = timers - 1
    /\ copied' = FALSE
    /\ UNCHANGED <<formData, formErrors, outcomeVars, fetchVars, clipPending, edits>>
    /\ UNCHANGED emphVars

(***************************************************************************)
(* Reset.  The reset button is disabled while loading.                     *)
(***************************************************************************)
\* a reset whose button is not disabled while loading
handleResetFormWhileLoading ==
    /\ formData' = [InitialFormData EXCEPT !.deadline = DefaultDeadline]
    /\ formErrors' = EmptyErrors
    /\ result' = <<>>
    /\ rawResult' = <<>>
    /\ error' = ""
    /\ success' = ""
    /\ copied' = FALSE
    /\ UNCHANGED <<loading, fetchVars, clipPending, timers, edits>>
    /\ UNCHANGED emphVars

handleResetForm ==
    /\ ~loading
    /\ formData' = [InitialFormData EXCEPT !.deadline = DefaultDeadline]
    /\ formErrors' = EmptyErrors
    /\ result' = <<>>
    /\ rawResult' = <<>>
    /\ error' = ""
    /\ success' = ""
    /\ copied' = FALSE
    /\ UNCHANGED <<loading, fetchVars, clipPending, timers, edits>>
    /\ UNCHANGED emphVars

Next ==
    \/ \E name \in InputNames : \E value \in InputValues(name) : handleInputChange(name, value)
    \/ \E value \in SkillsTexts : handleSkillsChange(value)
    \/ handleSubmit
    \/ \E resp \in Responses : BackendAnswers(resp)
    \/ \E err \in FetchExceptions : FetchRejected(err)
    \/ FetchResolved
    \/ \E err \in JsonExceptions : JsonRejected(err)
    \/ \E err \in NullExceptions : JsonNull(err)
    \/ JsonResolved
    \/ handleCopyToClipboard
    \/ ClipboardResolved
    \/ \E err \in ClipboardExceptions : ClipboardRejected(err)
    \/ TimerFired
    \/ handleResetForm

Spec == Init /\ [][Next]_vars

(***************************************************************************)
(* The Term Emphasizer (specification, section 4.4).                       *)
(***************************************************************************)
Alphabet == {"g", "G", "o", " ", "<"}

\* the raw texts the backend may generate
RawTexts == UNION {[1..n -> Alphabet] : n \in 0..MaxTextLen}

\* the skills a request may configure
SkillPool == {<<"G", "o">>, <<"g">>, <<"g", " ", "o">>, <<"o", " ", "g">>}

\* case folding of one character
FoldChar(c) == IF c = "G" THEN "g" ELSE c

\* case folding of a text
FoldCase(t) == [i \in 1..Len(t) |-> FoldChar(t[i])]

\* ASCII alphanumerics
IsWordChar(c) == c \in {"g", "G", "o"}

\* step 1: the candidate term set, every skill case-folded
CandidateTerms(skills) == {FoldCase(skill) : skill \in skills}

\* a match may not begin or end mid-word
BoundaryBefore(text, pos) == pos = 1 \/ ~IsWordChar(text[pos - 1])
BoundaryAfter(text, last) == last = Len(text) \/ ~IsWordChar(text[last + 1])

\* a candidate that only has to occur at pos, mid-word or not
MatchesAnywhere(text, pos, term) ==
    /\ pos + Len(term) - 1 <= Len(text)
    /\ FoldCase(SubSeq(text, pos, pos + Len(term) - 1)) = term

\* step 2: term matches at pos, case-insensitively, on whole-word boundaries
MatchesAt(text, pos, term) ==
    /\ pos + Len(term) - 1 <= Len(text)
    /\ FoldCase(SubSeq(text, pos, pos + Len(term) - 1)) = term
    /\ BoundaryBefore(text, pos)
    /\ BoundaryAfter(text, pos + Len(term) - 1)

MatchLengths(text, pos, terms) == {Len(term) : term \in {t \in terms : MatchesAt(text, pos, t)}}

\* the length of the shortest candidate that matches at pos, 0 if none does
ShortestMatch(text, pos, terms) ==
    IF MatchLengths(text, pos, terms) = {} THEN 0
    ELSE CHOOSE n \in MatchLengths(text, pos, terms) :
             \A m \in MatchLengths(text, pos, terms) : n <= m

\* steps 1 and 2: the length of the longest candidate that matches at pos, 0 if none does
LongestMatch(text, pos, terms) ==
    IF MatchLengths(text, pos, terms) = {} THEN 0
    ELSE CHOOSE n \in MatchLengths(text, pos, terms) :
             \A m \in MatchLengths(text, pos, terms) : n >= m

\* step 6: characters significant to markup are escaped
EscapeHtml(c) ==
    CASE c = "<" -> "&lt;"
      [] c = ">" -> "&gt;"
      [] c = "&" -> "&amp;"
      [] OTHER -> c

BoldOpen == "<b>"
BoldClose == "</b>"

\* the Emphasizer is handed a text and a skill list
EmphInit ==
    /\ PageInit
    /\ rawText \in RawTexts
    /\ skillList \in SUBSET SkillPool
    /\ scanPos = 1
    /\ emphasizedHtml = <<>>

\* step 3: a candidate matches at the scan position: emit the original-cased
\* substring in a bold marker and move past the match
EmphasizeMatch ==
    /\ scanPos <= Len(rawText)
    /\ LongestMatch(rawText, scanPos, CandidateTerms(skillList)) > 0
    /\ LET n == LongestMatch(rawText, scanPos, CandidateTerms(skillList))
       IN  /\ emphasizedHtml' = emphasizedHtml \o <<BoldOpen>>
                                    \o SubSeq(rawText, scanPos, scanPos + n - 1)
                                    \o <<BoldClose>>
           /\ scanPos' = scanPos + n
    /\ UNCHANGED <<rawText, skillList>>
    /\ UNCHANGED pageVars

\* no candidate matches at the scan position: emit the character, escaped
EmphasizeCopy ==
    /\ scanPos <= Len(rawText)
    /\ LongestMatch(rawText, scanPos, CandidateTerms(skillList)) = 0
    /\ emphasizedHtml' = Append(emphasizedHtml, EscapeHtml(rawText[scanPos]))
    /\ scanPos' = scanPos + 1
    /\ UNCHANGED <<rawText, skillList>>
    /\ UNCHANGED pageVars

EmphNext == EmphasizeMatch \/ EmphasizeCopy

EmphSpec == EmphInit /\ [][EmphNext]_vars

(***************************************************************************)
(* The page's own continuations run once they are ready: the event loop    *)
(* delivers a response that has arrived, settles response.json(), settles  *)
(* a clipboard write and fires a timer.  Nothing obliges the user to act,  *)
(* the backend to answer or the connection to fail.                        *)
(***************************************************************************)
PageSteps ==
    \/ FetchResolved
    \/ \E err \in JsonExceptions : JsonRejected(err)
    \/ \E err \in NullExceptions : JsonNull(err)
    \/ JsonResolved
    \/ ClipboardResolved
    \/ TimerFired

LiveSpec == Spec /\ WF_vars(PageSteps)

(***************************************************************************)
(* Properties.                                                             *)
(***************************************************************************)
\* a request is issued in this step
RequestIssued == request' # <<>> /\ request' # request

\* C1: from a form in which validateForm finds a violation, no step (so no
\* handleSubmit) issues the generation request or sets loading to true.
C1_InvalidSubmitStaysLocal ==
    [][DOMAIN validateForm(formData) # {}
         => /\ ~RequestIssued
            /\ (fetchState = "idle" => fetchState' = "idle")
            /\ (loading' => loading)]_vars

\* C1 witness: a submission was rejected by validation and nothing is in flight
C1_Witness ==
    /\ DOMAIN formErrors # {}
    /\ ~loading
    /\ fetchState = "idle"
    /\ request = <<>>

\* The rules of the Input Validator as the specification lists them.
WorkplaceValues == {"Remote", "On-site", "Hybrid"}
ExpLevelValues == {"Entry Level", "Mid Level", "Senior Level", "Expert"}

SalaryRangeInvalid(fd) ==
    /\ fd.min_salary # Null
    /\ fd.max_salary # Null
    /\ fd.max_salary[1] < fd.min_salary[1]

RuleViolations(fd) ==
    {f \in {"job_title", "company_name", "location"} : Trim(fd[f]) = <<>>}
    \cup (IF fd.workplace \notin WorkplaceValues THEN {"workplace"} ELSE {})
    \cup (IF fd.exp_level_category \notin ExpLevelValues THEN {"exp_level_category"} ELSE {})
    \cup (IF fd.skills = <<>> THEN {"skills"} ELSE {})
    \cup (IF Len(fd.min_experience_years) = 0 \/ fd.min_experience_years[1] < 0
          THEN {"min_experience_years"} ELSE {})
    \cup (IF SalaryRangeInvalid(fd) THEN {"max_salary"} ELSE {})

\* C2: every submission reports, in one pass, exactly the fields that violate a
\* rule: the keys of the error map are the violated fields.
C2_ErrorsAreTheViolations ==
    [][handleSubmit => DOMAIN formErrors' = RuleViolations(formData)]_vars

\* Text that is internal to the page or to the backend.
ExceptionTexts ==
    FetchExceptions \cup JsonExceptions \cup NullExceptions \cup ClipboardExceptions
InternalTexts == ExceptionTexts \cup {BackendDetail}

\* the generation call ends in this step without a success
CallFails ==
    /\ fetchState # "idle"
    /\ fetchState' = "idle"
    /\ ~(/\ response # <<>>
         /\ response[1].body.kind = "object"
         /\ response[1].status \in 200..299
         /\ response[1].body.status = "success")

\* C3 as stated: the error shown never carries exception text or
\* backend-internal detail.
C3_NoInternalTextShown == error \notin InternalTexts

\* C3 as amended: the text of an exception is never shown; a call that throws
\* (network failure, unparsable or null body) shows the fixed connection
\* message, and an error response shows its message, else its detail, else
\* the generic status message.
C3_FailureMessage ==
    /\ [](error \notin ExceptionTexts)
    /\ [][CallFails =>
            error' = IF response = <<>> \/ response[1].body.kind # "object"
                     THEN ConnectMessage
                     ELSE IF response[1].body.message \notin {"", Undefined}
                     THEN response[1].body.message
                     ELSE IF response[1].body.detail \notin {"", Undefined}
                     THEN response[1].body.detail
                     ELSE StatusMessage(response[1].status)]_vars

\* C3 witness: a call has thrown and the fixed message is shown
C3_Witness == error = ConnectMessage /\ fetchState = "idle" /\ ~loading

\* C4: a submission never stays in flight forever: loading is left after a
\* bounded wait even when the backend does not answer.
C4_LoadingEnds == loading ~> ~loading

\* C5: the retry policy ends every attempt: an attempt that gets no answer
\* times out and, after at most one retry, surfaces a failure result, so it
\* does not stay pending without an answer.
C5_UnansweredAttemptFails ==
    (fetchState = "pending" /\ response = <<>>)
        ~> (response # <<>> \/ (fetchState = "idle" /\ error # ""))

\* C6: no submission ends in the success outcome with a description that is
\* empty after trimming.
C6_NoEmptySuccess ==
    success = SuccessMessage => result # UndefinedText /\ Trim(result) # <<>>

\* a success response is applied in this step
SuccessApplied ==
    /\ fetchState = "parsing"
    /\ fetchState' = "idle"
    /\ response[1].body.kind = "object"
    /\ response[1].status \in 200..299
    /\ response[1].body.status = "success"

\* a text is handed to navigator.clipboard.writeText in this step
CopyStarted == Len(clipPending') > Len(clipPending)

\* C7 as stated: result is the response's job_description, the copy text is
\* its raw_description, and the HTML version is never copied.
C7_RawDescriptionCopied ==
    /\ [][SuccessApplied => /\ result' = response[1].body.job_description
                            /\ rawResult' = response[1].body.raw_description]_vars
    /\ [][CopyStarted => /\ clipPending'[Len(clipPending')] = rawResult
                         /\ clipPending'[Len(clipPending')] # HtmlDescription]_vars

\* C7 as amended: result is the response's job_description; the copy text is
\* its raw_description when that is non-empty and its job_description
\* otherwise; the text copied is the copy text.
C7_RawOrFallbackCopied ==
    /\ [][SuccessApplied =>
            /\ result' = response[1].body.job_description
            /\ rawResult' = IF response[1].body.raw_description \notin {<<>>, UndefinedText}
                            THEN response[1].body.raw_description
                            ELSE response[1].body.job_description]_vars
    /\ [][CopyStarted => clipPending'[Len(clipPending')] = rawResult]_vars

\* C7 witness: HTML displayed, plain text kept apart and handed to the clipboard
C7_Witness ==
    /\ result = HtmlDescription
    /\ rawResult = PlainDescription
    /\ clipPending = <<PlainDescription>>

\* C10: a form with both salaries present and max_salary < min_salary gets an
\* error on max_salary and is not sent.
C10_SalaryRangeChecked ==
    [][handleSubmit /\ SalaryRangeInvalid(formData)
         => "max_salary" \in DOMAIN formErrors' /\ ~RequestIssued]_vars

(***************************************************************************)
(* Properties of the Term Emphasizer.                                      *)
(***************************************************************************)
\* the scan has reached the end of the text
ScanDone == scanPos > Len(rawText)

\* The bold spans of an HTML token sequence, each as <<first, last>> in the
\* coordinates of the raw text, one entry per pair of markers (a span that
\* is wrapped twice is listed twice).
RECURSIVE SpansOf(_, _, _)
SpansOf(tokens, next, open) ==
    IF tokens = <<>> THEN <<>>
    ELSE IF Head(tokens) = BoldOpen THEN SpansOf(Tail(tokens), next, <<next>> \o open)
    ELSE IF Head(tokens) = BoldClose
         THEN IF open = <<>> THEN SpansOf(Tail(tokens), next, open)
              ELSE <<<<Head(open), next - 1>>>> \o SpansOf(Tail(tokens), next, Tail(open))
    ELSE SpansOf(Tail(tokens), next + 1, open)

BoldSpans == SpansOf(emphasizedHtml, 1, <<>>)

\* the number of bold spans that are exactly <<first, last>>
TimesWrapped(first, last) ==
    Cardinality({k \in 1..Len(BoldSpans) : BoldSpans[k] = <<first, last>>})

LowerCase(c) == CASE c = "G" -> "g" [] c = "O" -> "o" [] OTHER -> c
Alphanumeric(c) == c \in {"g", "G", "o", "O"}

\* skill occurs in the raw text at first..last, ignoring case
OccursAt(skill, first, last) ==
    /\ last = first + Len(skill) - 1
    /\ last <= Len(rawText)
    /\ \A k \in 1..Len(skill) : LowerCase(rawText[first + k - 1]) = LowerCase(skill[k])

\* ... as a whole word or phrase
WholeWordAt(skill, first, last) ==
    /\ OccursAt(skill, first, last)
    /\ (first = 1 \/ ~Alphanumeric(rawText[first - 1]))
    /\ (last = Len(rawText) \/ ~Alphanumeric(rawText[last + 1]))

\* the whole-word occurrences of the configured skills
Occurrences ==
    {span \in (1..Len(rawText)) \X (1..Len(rawText)) :
        \E skill \in skillList : WholeWordAt(skill, span[1], span[2])}

SpansDisjoint ==
    \A j, k \in 1..Len(BoldSpans) :
        j # k => BoldSpans[j][2] < BoldSpans[k][1] \/ BoldSpans[k][2] < BoldSpans[j][1]

OnlyWholeWordsWrapped ==
    \A k \in 1..Len(BoldSpans) : BoldSpans[k] \in Occurrences

\* span lies under a bold span that starts before it, or starts with it and is longer
Preempted(span) ==
    \E k \in 1..Len(BoldSpans) :
        \/ BoldSpans[k][1] < span[1] /\ span[1] <= BoldSpans[k][2]
        \/ BoldSpans[k][1] = span[1] /\ BoldSpans[k][2] > span[2]

\* C8 as stated: every whole-word occurrence of a configured skill is wrapped
\* exactly once, no span is wrapped twice, and nothing but a whole-word
\* occurrence is wrapped.
C8_EveryOccurrenceWrapped ==
    ScanDone =>
        /\ \A span \in Occurrences : TimesWrapped(span[1], span[2]) = 1
        /\ SpansDisjoint
        /\ OnlyWholeWordsWrapped

\* C8 as amended: every whole-word occurrence of a configured skill is wrapped
\* exactly once unless it lies under a match that starts earlier or, starting
\* at the same place, is longer (then it is not wrapped itself); no span is
\* wrapped twice, and nothing but a whole-word occurrence is wrapped.
C8_EveryFreeOccurrenceWrapped ==
    ScanDone =>
        /\ \A span \in Occurrences :
              IF Preempted(span) THEN TimesWrapped(span[1], span[2]) = 0
              ELSE TimesWrapped(span[1], span[2]) = 1
        /\ SpansDisjoint
        /\ OnlyWholeWordsWrapped

\* C8 witness: "Go" is wrapped where it is a word and left alone inside "Goo"
C8_Witness ==
    /\ ScanDone
    /\ rawText = <<"G", "o", " ", "g">>
    /\ skillList = {<<"g">>, <<"G", "o">>}
    /\ emphasizedHtml = <<"<b>", "G", "o", "</b>", " ", "<b>", "g", "</b>">>

\* C9: where several candidate terms match at a scan position the longest is
\* the one wrapped, and no bold span begins inside a span already consumed.
C9_LongestMatchWins ==
    ScanDone =>
        /\ \A k \in 1..Len(BoldSpans) :
              \A span \in Occurrences :
                  span[1] = BoldSpans[k][1] => span[2] <= BoldSpans[k][2]
        /\ \A j, k \in 1..Len(BoldSpans) :
              j # k => ~(BoldSpans[j][1] <= BoldSpans[k][1] /\ BoldSpans[k][1] <= BoldSpans[j][2])

\* C9 witness: skills "g" and "g o" on the text "g o": only "g o" is wrapped
C9_Witness ==
    /\ ScanDone
    /\ rawText = <<"g", " ", "o">>
    /\ {<<"g">>, <<"g", " ", "o">>} \subseteq skillList
    /\ emphasizedHtml = <<"<b>", "g", " ", "o", "</b>">>


(***************************************************************************)
(* Properties of the form fields.                                          *)
(***************************************************************************)
\* the positions of the commas of a text
Commas(text) == {i \in 1..Len(text) : text[i] = ","}

\* the k-th comma of a text
NthComma(text, k) ==
    CHOOSE i \in Commas(text) : Cardinality({j \in Commas(text) : j < i}) = k - 1

\* the k-th piece of a text: what lies between comma k-1 and comma k
Piece(text, k) ==
    SubSeq(text,
           IF k = 1 THEN 1 ELSE NthComma(text, k - 1) + 1,
           IF k = Cardinality(Commas(text)) + 1 THEN Len(text) ELSE NthComma(text, k) - 1)

\* a piece from its first to its last character that is not a blank
Stripped(piece) ==
    LET ink == {i \in 1..Len(piece) : piece[i] # " "}
    IN  IF ink = {} THEN <<>>
        ELSE SubSeq(piece, CHOOSE i \in ink : \A j \in ink : i <= j,
                           CHOOSE i \in ink : \A j \in ink : i >= j)

\* the pieces that are not empty once stripped
KeptPieces(text) ==
    {k \in 1..(Cardinality(Commas(text)) + 1) : Stripped(Piece(text, k)) # <<>>}

\* the kept pieces, stripped, in the order of the text
NormalizedSkills(text) ==
    [n \in 1..Cardinality(KeptPieces(text)) |->
        Stripped(Piece(text, CHOOSE k \in KeptPieces(text) :
                                 Cardinality({j \in KeptPieces(text) : j < k}) = n - 1))]

\* the normalized skills of every text the model enters
NormalizedTexts == [value \in SkillsTexts |-> NormalizedSkills(value)]

\* C11: skills is the comma-split of the entered text, each piece trimmed,
\* empty pieces dropped, in order; no element of skills is ever empty or has
\* leading or trailing whitespace; a submission with an empty skills list gets
\* an error on skills and is not sent.
C11_SkillsNormalized ==
    /\ [](\A i \in 1..Len(formData.skills) :
             /\ formData.skills[i] # <<>>
             /\ formData.skills[i][1] # " "
             /\ formData.skills[i][Len(formData.skills[i])] # " ")
    /\ [][formData'.skills # formData.skills
             => \A value \in SkillsTexts :
                    handleSkillsChange(value) => formData'.skills = NormalizedTexts[value]]_vars
    /\ [][formData.skills = <<>> /\ handleSubmit
             => "skills" \in DOMAIN formErrors' /\ ~RequestIssued]_vars

\* C11 witness: two skills were entered and are kept trimmed and in order; a
\* submission has shown errors, none of them on skills
C11_Witness ==
    /\ formData.skills = <<<<"G", "o">>, <<"g", "o">>>>
    /\ "skills" \notin DOMAIN formErrors
    /\ "workplace" \in DOMAIN formErrors

\* a text with its letters in lower case
Folded(text) == [i \in 1..Len(text) |-> LowerCase(text[i])]

\* C12: the skills of a request that is sent are de-duplicated ignoring case:
\* no two elements are equal after case folding.
C12_SkillsDeduplicated ==
    request # <<>> =>
        \A i, j \in 1..Len(request[1].skills) :
            i # j => Folded(request[1].skills[i]) # Folded(request[1].skills[j])

\* C13: a submission whose min_experience_years is empty or negative gets an
\* error on that field and is not sent, so every request that is sent carries
\* a number >= 0 as min_experience_years.
C13_ExperienceChecked ==
    /\ [][(\/ formData.min_experience_years = <<>>
            \/ formData.min_experience_years[1] < 0) /\ handleSubmit
             => "min_experience_years" \in DOMAIN formErrors' /\ ~RequestIssued]_vars
    /\ [](request # <<>> => /\ Len(request[1].min_experience_years) = 1
                            /\ request[1].min_experience_years[1] \in Nat)

\* C13 witness: a negative min_experience_years was rejected and nothing was sent
C13_Witness ==
    /\ formData.min_experience_years = <<0 - 1>>
    /\ "min_experience_years" \in DOMAIN formErrors
    /\ request = <<>>
    /\ ~loading

\* C14: every request that is sent carries a calendar date as deadline, never
\* an empty value.
C14_DeadlineIsADate == request # <<>> => request[1].deadline # ""

\* the values of style_preference the specification enumerates
SpecStyles == {"LinkedIn", "Indeed", "Rozee.pk", "LLM-Generated"}

\* the values of the options of the style_preference select
StyleOptions == {"LinkedIn", "Indeed", "Rozee.pk", "LLM Generated (Full & Beautiful)"}

\* C15 as stated: the style_preference of every request that is sent is one of
\* LinkedIn, Indeed, Rozee.pk, LLM-Generated.
C15_StyleInSpecEnum == request # <<>> => request[1].style_preference \in SpecStyles

\* C15 as amended: the style_preference of every request that is sent is the
\* value of one of the four options of the select: LinkedIn, Indeed, Rozee.pk
\* or "LLM Generated (Full & Beautiful)".
C15_StyleIsAnOption == request # <<>> => request[1].style_preference \in StyleOptions

\* C15 witness: a request with the fourth style is in flight
C15_Witness ==
    /\ request # <<>>
    /\ request[1].style_preference = "LLM Generated (Full & Beautiful)"

(***************************************************************************)
(* Properties of a submission in flight, of reset and of editing.          *)
(***************************************************************************)
\* C16: once the fetch has settled the loading indicator is stopped: a
\* response that has arrived (a success, an error response, a body that does
\* not parse) leads to loading = false, and the step that ends the call, a
\* network failure included, leaves loading = false.
C16_LoadingStopsOnceSettled ==
    /\ (loading /\ response # <<>>) ~> ~loading
    /\ [][fetchState # "idle" /\ fetchState' = "idle" => ~loading']_vars

\* C16 witness: an error response was applied and loading is off
C16_Witness ==
    /\ ~loading
    /\ fetchState = "idle"
    /\ response = <<>>
    /\ error = BackendMessage

\* C17: while a request is in flight result, rawResult, error and success are
\* all empty.
C17_OutcomeEmptyWhileLoading ==
    loading => result = <<>> /\ rawResult = <<>> /\ error = "" /\ success = ""

\* the state handleResetForm describes: the initial form and nothing shown
ResetState ==
    /\ formData = [job_title |-> <<>>, company_name |-> <<>>, location |-> <<>>,
                   workplace |-> "", skills |-> <<>>, min_experience_years |-> <<0>>,
                   exp_level_category |-> "", min_salary |-> <<>>, max_salary |-> <<>>,
                   deadline |-> DefaultDeadline, notes |-> <<>>,
                   qualification_details |-> <<>>, benefits_details |-> <<>>,
                   style_preference |-> "LinkedIn", output_length_preference |-> "Standard"]
    /\ formErrors = EmptyErrors
    /\ result = <<>>
    /\ rawResult = <<>>
    /\ error = ""
    /\ success = ""
    /\ ~copied

\* a step that is not a user action: a clipboard write settles or a timer fires
CallbackRuns ==
    \/ Len(clipPending') < Len(clipPending)
    \/ timers' < timers

\* C18: handleResetForm leaves the initial form with formErrors, result,
\* rawResult, error, success and copied cleared, and no callback changes that.
C18_ResetClearsAndStays ==
    /\ [][handleResetForm => ResetState']_vars
    /\ [][ResetState /\ ~loading /\ CallbackRuns => ResetState']_vars

\* the frame of an edit of field f
EditFrame(f) ==
    /\ \A g \in DOMAIN formData \ {f} : formData'[g] = formData[g]
    /\ DOMAIN formErrors' = DOMAIN formErrors \ {f}
    /\ \A g \in DOMAIN formErrors' : formErrors'[g] = formErrors[g]
    /\ UNCHANGED <<loading, result, rawResult, error, success, copied>>
    /\ UNCHANGED <<fetchState, request, response, clipPending, timers>>

\* C19: an edit of field f (a change event: handleInputChange, or
\* handleSkillsChange for skills, the steps that count in edits) removes the entry of f from formErrors, leaves every other entry
\* as it was, and changes nothing else but formData[f].
C19_EditClearsOwnErrorOnly ==
    [][edits' # edits
         => \E f \in InputNames \cup {"skills"} :
                formData'[f] # formData[f] /\ EditFrame(f)]_vars

\* C19 witness: after a rejected submission job_title was edited to a blank:
\* its error is gone although it is still invalid, the others are still there
C19_Witness ==
    /\ formData.job_title = <<" ">>
    /\ "job_title" \notin DOMAIN formErrors
    /\ {"company_name", "skills"} \subseteq DOMAIN formErrors

C21_ErrorOrSuccessNotBoth == ~(error # "" /\ success # "")

=============================================================================
